---------------------------- MODULE Spec2Model ----------------------------
(***************************************************************************)
(* Vehicle-tracking composable (useVehicleTracking) of the yard map        *)
(* viewer: the poll loop, the incremental marker reconciliation, the       *)
(* track loader and the visibility / lifecycle controller, together with   *)
(* the host component's map handle (getMap).                               *)
(*                                                                         *)
(* Every await of the source is a suspension point: the part of a handler  *)
(* before its fetch is one action, the continuation that runs when the     *)
(* fetch settles is another.  Everything between two awaits is synchronous *)
(* and is one atomic step.                                                 *)
(***************************************************************************)
EXTENDS Integers, Sequences, FiniteSets, TLC

(***************************************************************************)
(* Bounds of the model and value domains of the backend's answers.         *)
(***************************************************************************)
MaxInFlight == 2        \* snapshot fetches in flight at once
MaxRegInFlight == 1     \* registered-vehicle fetches in flight at once
MaxTrackInFlight == 2   \* track-history fetches in flight at once
MaxStarts == 2          \* calls of start() in one run
MaxLeaked == 1          \* polylines left on the map without a handle

Null == -1              \* null / absent number (speed, heading)
NoVehicle == "none"     \* selectedVehicleId === null
NoHandle == 0           \* a null object reference (timer, trackPolyline)

VehicleIds == {"A", "B"}
Lats == {1, 2}
Lngs == {1, 2}
Speeds == {Null, 10}
Headings == {Null, 0, 90}

ACCENT_COLOR == "#E65100"
NEUTRAL_COLOR == "#757575"

\* interface VehiclePosition (the time stamp is not modelled: no decision of
\* the reconciler reads it)
VehiclePosition ==
    [vehicleId : VehicleIds, lat : Lats, lng : Lngs, speed : Speeds, heading : Headings]

Range(s) == {s[i] : i \in 1..Len(s)}

Ids(data) == {data[i].vehicleId : i \in 1..Len(data)}

\* sequences over S of length at most n without repeated elements
RECURSIVE SeqsNoRep(_, _)
SeqsNoRep(S, n) ==
    IF n = 0 THEN {<<>>}
    ELSE {<<>>} \cup UNION {{<<x>> \o t : t \in SeqsNoRep(S \ {x}, n - 1)} : x \in S}

\* GET /api/gps-tracks/vehicles: one entry per vehicle, in any order
SnapshotsOver(P) ==
    {s \in UNION {[1..n -> P] : n \in 0..Cardinality(VehicleIds)} :
        \A i, j \in 1..Len(s) : i # j => s[i].vehicleId # s[j].vehicleId}

\* The reports the poll loop is checked with: A moves north-south, changes
\* speed and turns; B is parked.  Both orders of a two-vehicle snapshot occur.
Fleet == {v \in VehiclePosition :
    \/ v.vehicleId = "A" /\ v.lng = 1 /\ v.heading # Null
    \/ v.vehicleId = "B" /\ v.lat = 2 /\ v.lng = 2 /\ v.speed = Null /\ v.heading = 0}

Snapshots == SnapshotsOver(Fleet)

\* GET /api/vehicles: the registered vehicles, reduced to their vehicleId
RegisteredLists == SeqsNoRep(VehicleIds, Cardinality(VehicleIds))

\* GET /api/gps-tracks/{vehicleId}: history points, reduced to the fields
\* selectVehicle() reads; the vehicle moves between consecutive points
MaxTrackLen == 2
TrackPoints == {[lat |-> 1, lng |-> 2], [lat |-> 2, lng |-> 1]}
TrackResponses ==
    {t \in UNION {[1..n -> TrackPoints] : n \in 0..MaxTrackLen} :
        \A i \in 1..(Len(t) - 1) : t[i] # t[i + 1]}

\* mutant: the vertices are taken in reverse order
LatLngsReversed(points) ==
    [i \in 1..Len(points) |->
        <<points[Len(points) + 1 - i].lat, points[Len(points) + 1 - i].lng>>]

\* points.map(p => [p.lat, p.lng])
LatLngs(points) == [i \in 1..Len(points) |-> <<points[i].lat, points[i].lng>>]

(***************************************************************************)
(* State.                                                                  *)
(***************************************************************************)
VARIABLES
    host,               \* the host component: "setup", "mounted", "stopping", "unmounted"
    vehicles,           \* ref: the snapshot stored last
    registeredVehicles, \* ref: the registered list (vehicleIds)
    selectedVehicleId,  \* ref
    visible,            \* ref
    markerMap,          \* vehicleId -> MarkerEntry
    markerLayer,        \* the markers held by the layer group (their handles)
    layerOnMap,         \* map.hasLayer(markerLayer)
    trackPolyline,      \* handle of the current track line, or NoHandle
    polylines,          \* polyline handle -> [vehicleId, points, onMap]
    timer,              \* handle of the interval armed last, or NoHandle
    intervals,          \* the armed intervals
    refreshInFlight,    \* refresh() calls suspended in their fetch
    regInFlight,        \* fetchRegisteredVehicles() calls suspended in their fetch
    trackInFlight,      \* vehicleId -> selectVehicle() calls suspended in their fetch
    mockTool,           \* the host's mock GPS tool: its refs, its markers, its requests in flight
    synced,             \* history: the registry is as the last visible reconcile left it
    last                \* history: the handler that ran last and the marker calls it made

vars ==
    <<host, vehicles, registeredVehicles, selectedVehicleId, visible, markerMap,
      markerLayer, layerOnMap, trackPolyline, polylines, timer, intervals,
      refreshInFlight, regInFlight, trackInFlight, mockTool, synced, last>>

trackVars == <<selectedVehicleId, trackPolyline, polylines, trackInFlight>>
registryVars == <<markerMap, markerLayer, layerOnMap>>

\* getMap() !== null: the host's map exists from onMounted until its own
\* unmount hook, which runs after the composable's
MapPresent == host \in {"mounted", "stopping"}

\* the composable's functions can be called by the host
Callable == host \in {"setup", "mounted"}

Op(name, id) == [op |-> name, id |-> id]

EmptyMap == [id \in {} |-> {}]

\* what `last` records: the handler, the marker calls it made, for a
\* successful snapshot or history response the response (data) and, for a reconcile,
\* what it was given: per reported vehicle the fields in which the report
\* differed from the registry, and whether the snapshot repeats the one of
\* the reconcile before it
Blank(act, ops) ==
    [act |-> act, ops |-> ops, diff |-> EmptyMap, data |-> <<>>, repeat |-> FALSE,
     phase |-> "", before |-> EmptyMap, sync |-> FALSE, pass |-> 0,
     ordered |-> FALSE, stale |-> 0, late |-> FALSE]

\* `last` can also follow the order of the snapshot fetches.  The code keeps
\* no such order, so following it only splits states; it is done in the
\* specification that starts with ordered set, and nowhere else.  stale
\* counts the fetches in flight that were issued before a fetch whose
\* successful response has been processed already; late tells that the
\* response just processed belongs to such a fetch.  Every handler carries
\* ordered and stale along.
Did(act, ops) ==
    [Blank(act, ops) EXCEPT !.ordered = last.ordered, !.stale = last.stale]

\* the fetch a response may belong to: 0 for a stale one, k for the k-th
\* oldest of the others
Completing ==
    IF last.ordered
    THEN (IF last.stale > 0 THEN {0} ELSE {}) \cup (1..(refreshInFlight - last.stale))
    ELSE {1}

\* a successful response to fetch c overtakes the c - 1 fetches issued
\* before it; a failed one overtakes none
Settled(rec, c, success) ==
    [rec EXCEPT !.stale = IF c = 0 THEN last.stale - 1
                          ELSE IF success THEN last.stale + (c - 1)
                          ELSE last.stale,
                !.late = (c = 0)]

\* the icon of every marker of the registry mm
Icons(mm) == [id \in DOMAIN mm |-> mm[id].marker.icon]

\* `last` also follows a hide that is followed at once by a show and then by
\* a reconcile of the snapshot stored before the hide: phase is "hide", then
\* "show", then "rebuilt"; before holds the icons the hide destroyed and sync
\* tells whether they had been reconciled with the current registered list.
\* stop() too records in before the icons it destroyed.
Hidden(rec, mm, insync) ==
    [rec EXCEPT !.phase = "hide", !.before = Icons(mm), !.sync = insync]

Shown(rec, prev) ==
    IF prev.phase = "hide"
    THEN [rec EXCEPT !.phase = "show", !.before = prev.before, !.sync = prev.sync]
    ELSE rec

Rebuilt(rec, prev, unchanged) ==
    IF prev.phase = "show" /\ unchanged
    THEN [rec EXCEPT !.phase = "rebuilt", !.before = prev.before, !.sync = prev.sync]
    ELSE rec

\* The three snapshots of the scenario: A heading 0, A turned to 90, B alone.
ScenarioFirst ==
    <<[vehicleId |-> "A", lat |-> 1, lng |-> 1, speed |-> Null, heading |-> 0]>>

ScenarioSecond ==
    <<[vehicleId |-> "A", lat |-> 1, lng |-> 1, speed |-> Null, heading |-> 90]>>

ScenarioThird ==
    <<[vehicleId |-> "B", lat |-> 2, lng |-> 2, speed |-> Null, heading |-> 0]>>

\* `last` counts in pass how far the reconciles have followed the scenario
\* from an empty registry; a call of refresh() and a failed fetch run no
\* reconcile and keep the count, every other handler resets it
Passed(prev, mm, data) ==
    IF mm = EmptyMap /\ data = ScenarioFirst THEN 1
    ELSE IF prev.pass = 1 /\ data = ScenarioSecond THEN 2
    ELSE IF prev.pass = 2 /\ data = ScenarioThird THEN 3
    ELSE 0

Kept(rec, prev) == [rec EXCEPT !.pass = prev.pass]

\* the fields in which report v differs from what the registry mm caches
Differences(mm, v, registered) ==
    IF v.vehicleId \notin DOMAIN mm THEN {"new"}
    ELSE LET e == mm[v.vehicleId]
         IN  (IF e.marker.latlng # <<v.lat, v.lng>> THEN {"position"} ELSE {})
             \cup (IF e.heading # (IF v.heading = Null THEN 0 ELSE v.heading)
                   THEN {"heading"} ELSE {})
             \cup (IF e.speed # v.speed THEN {"speed"} ELSE {})
             \cup (IF (e.color = ACCENT_COLOR) # (v.vehicleId \in Range(registered))
                   THEN {"color"} ELSE {})

Given(mm, data, registered) ==
    [id \in Ids(data) |->
        Differences(mm, CHOOSE v \in Range(data) : v.vehicleId = id, registered)]

(***************************************************************************)
(* The host's mock GPS tool: its state and pure helpers.                   *)
(***************************************************************************)
MaxMockInFlight == 1    \* mock POSTs, and mock DELETEs, in flight at once
MaxMockPoints == 2      \* mock points saved between two clears

\* pendingPoint.value = null
NoPoint == [lat |-> Null, lng |-> Null]

\* the places a click can hit
MockPoints == {[lat |-> 1, lng |-> 1], [lat |-> 2, lng |-> 1]}

\* the value of the speed input
MockSpeeds == {20}

\* the value of the vehicle select
MockVehicleIds == {"A"}

\* the state after setup: mockMode, pendingPoint, pendingMarker,
\* lastMockPoints and mockPointCount are the host's; clickBound says that
\* mockClickHandler is registered on the map, markers are the tool's markers
\* on the map (handle -> position), posts and deletes the requests in flight
MockInit ==
    [mockMode |-> FALSE, clickBound |-> FALSE, pendingPoint |-> NoPoint,
     pendingMarker |-> NoHandle, markers |-> EmptyMap, lastMockPoints |-> EmptyMap,
     mockPointCount |-> 0, posts |-> {}, deletes |-> {}]

\* marker.remove(): the marker leaves the map; on null nothing happens
Detached(markers, h) == [k \in DOMAIN markers \ {h} |-> markers[k]]

\* cancelMockPoint(): pendingMarker?.remove(); pendingMarker = null;
\* pendingPoint.value = null
cancelMockPoint(m) ==
    [m EXCEPT !.markers = Detached(m.markers, m.pendingMarker),
              !.pendingMarker = NoHandle,
              !.pendingPoint = NoPoint]

\* (Math.atan2(lng - prev.lng, lat - prev.lat) * 180 / Math.PI + 360) % 360
\* on points one step apart at most
MockHeading(prev, p) ==
    LET dlat == p.lat - prev.lat
        dlng == p.lng - prev.lng
    IN  CASE dlng = 0 /\ dlat >= 0 -> 0
          [] dlng = 1 /\ dlat = 1 -> 45
          [] dlng = 1 /\ dlat = 0 -> 90
          [] dlng = 1 /\ dlat = -1 -> 135
          [] dlng = 0 /\ dlat = -1 -> 180
          [] dlng = -1 /\ dlat = -1 -> 225
          [] dlng = -1 /\ dlat = 0 -> 270
          [] dlng = -1 /\ dlat = 1 -> 315

(***************************************************************************)
(* Pure helpers of the reconciler.                                         *)
(***************************************************************************)
\* makeVehicleIcon: the icon's html is determined by (heading, color)
makeVehicleIcon(heading, color) == [heading |-> heading, color |-> color]

\* makeVehiclePopup: the speed and heading lines are left out when null
makeVehiclePopup(v) == [vehicleId |-> v.vehicleId, speed |-> v.speed, heading |-> v.heading]

\* mutant: only the first registered vehicle counts as known
KnownIdsFirstOnly(registered) == IF registered = <<>> THEN {} ELSE {registered[1]}

\* new Set(registeredVehicles.value.map(v => v.vehicleId))
KnownIds(registered) == Range(registered)

\* mutant: every vehicle is drawn as a known one
VehicleColorAlwaysKnown(knownIds, id) == ACCENT_COLOR

\* knownIds.has(v.vehicleId) ? '#E65100' : '#757575'
VehicleColor(knownIds, id) == IF id \in knownIds THEN ACCENT_COLOR ELSE NEUTRAL_COLOR

\* v.heading ?? 0
HeadingOrZero(v) == IF v.heading = Null THEN 0 ELSE v.heading

\* mutant: the marker is never moved
PositionNeverChanged(ll, v) == FALSE

\* mutant: the marker is moved on every pass
PositionAlwaysChanged(ll, v) == TRUE

\* ll.lat !== v.lat || ll.lng !== v.lng
PositionChanged(ll, v) == ll[1] # v.lat \/ ll[2] # v.lng

\* mutants: the icon is swapped for a colour change only, for a heading change only
IconStaleOnColorOnly(entry, heading, color) == entry.color # color

IconStaleOnHeadingOnly(entry, heading, color) == entry.heading # heading

\* headingChanged || colorChanged
IconStale(entry, heading, color) == entry.heading # heading \/ entry.color # color

\* mutant: the popup is regenerated for a heading change only
PopupStaleOnHeadingOnly(entry, heading, v) == entry.heading # heading

\* headingChanged || speedChanged
PopupStale(entry, heading, v) == entry.heading # heading \/ entry.speed # v.speed

\* a fresh object reference: the least handle no live object uses
FreshHandle(used) == CHOOSE h \in 1..(Cardinality(used) + 1) :
    h \notin used /\ \A k \in 1..(h - 1) : k \in used

MarkerHandles(mm) == {mm[id].marker.h : id \in DOMAIN mm}

\* mutant: a new marker is stored in the registry but not put in the layer
CreateMarkerOffLayer(st, v, heading, color) ==
    LET h == FreshHandle(MarkerHandles(st.markerMap) \cup st.markerLayer)
        marker == [h |-> h, latlng |-> <<v.lat, v.lng>>,
                   icon |-> makeVehicleIcon(heading, color),
                   popup |-> makeVehiclePopup(v),
                   tooltip |-> v.vehicleId, click |-> v.vehicleId]
        entry == [marker |-> marker, heading |-> heading, speed |-> v.speed, color |-> color]
    IN  [st EXCEPT !.markerMap = (v.vehicleId :> entry) @@ @,
                   !.ops = @ \cup {Op("add", v.vehicleId)}]

\* mutant: a new marker gets an unrotated icon
CreateMarkerUnrotated(st, v, heading, color) ==
    LET h == FreshHandle(MarkerHandles(st.markerMap) \cup st.markerLayer)
        marker == [h |-> h, latlng |-> <<v.lat, v.lng>>,
                   icon |-> makeVehicleIcon(0, color),
                   popup |-> makeVehiclePopup(v),
                   tooltip |-> v.vehicleId, click |-> v.vehicleId]
        entry == [marker |-> marker, heading |-> heading, speed |-> v.speed, color |-> color]
    IN  [st EXCEPT !.markerMap = (v.vehicleId :> entry) @@ @,
                   !.markerLayer = @ \cup {h},
                   !.ops = @ \cup {Op("add", v.vehicleId)}]

\* the else branch: L.marker(...), bindTooltip, bindPopup, on('click'),
\* markerMap.set, markerLayer.addLayer
CreateMarker(st, v, heading, color) ==
    LET h == FreshHandle(MarkerHandles(st.markerMap) \cup st.markerLayer)
        marker == [h |-> h, latlng |-> <<v.lat, v.lng>>,
                   icon |-> makeVehicleIcon(heading, color),
                   popup |-> makeVehiclePopup(v),
                   tooltip |-> v.vehicleId, click |-> v.vehicleId]
        entry == [marker |-> marker, heading |-> heading, speed |-> v.speed, color |-> color]
    IN  [st EXCEPT !.markerMap = (v.vehicleId :> entry) @@ @,
                   !.markerLayer = @ \cup {h},
                   !.ops = @ \cup {Op("add", v.vehicleId)}]

\* mutant: an update replaces the marker by a new one
UpdateMarkerRecreates(st, v, heading, color) ==
    LET id == v.vehicleId
        e0 == st.markerMap[id]
        moved == PositionChanged(e0.marker.latlng, v)
        icon == IconStale(e0, heading, color)
        popup == PopupStale(e0, heading, v)
        e1 == IF moved THEN [e0 EXCEPT !.marker.latlng = <<v.lat, v.lng>>] ELSE e0
        e2 == IF icon
              THEN [e1 EXCEPT !.marker.icon = makeVehicleIcon(heading, color),
                              !.heading = heading, !.color = color]
              ELSE e1
        e3 == IF popup
              THEN [e2 EXCEPT !.marker.popup = makeVehiclePopup(v), !.speed = v.speed]
              ELSE e2
        h == FreshHandle(MarkerHandles(st.markerMap) \cup st.markerLayer)
    IN  [st EXCEPT !.markerMap[id] = [e3 EXCEPT !.marker.h = h],
                   !.markerLayer = (@ \ {e0.marker.h}) \cup {h},
                   !.ops = @ \cup (IF moved THEN {Op("setLatLng", id)} ELSE {})
                             \cup (IF icon THEN {Op("setIcon", id)} ELSE {})
                             \cup (IF popup THEN {Op("setPopupContent", id)} ELSE {})]

\* mutant: the icon is swapped but the cached heading is not updated
UpdateMarkerStaleCache(st, v, heading, color) ==
    LET id == v.vehicleId
        e0 == st.markerMap[id]
        moved == PositionChanged(e0.marker.latlng, v)
        icon == IconStale(e0, heading, color)
        popup == PopupStale(e0, heading, v)
        e1 == IF moved THEN [e0 EXCEPT !.marker.latlng = <<v.lat, v.lng>>] ELSE e0
        e2 == IF icon
              THEN [e1 EXCEPT !.marker.icon = makeVehicleIcon(heading, color),
                              !.color = color]
              ELSE e1
        e3 == IF popup
              THEN [e2 EXCEPT !.marker.popup = makeVehiclePopup(v), !.speed = v.speed]
              ELSE e2
    IN  [st EXCEPT !.markerMap[id] = e3,
                   !.ops = @ \cup (IF moved THEN {Op("setLatLng", id)} ELSE {})
                             \cup (IF icon THEN {Op("setIcon", id)} ELSE {})
                             \cup (IF popup THEN {Op("setPopupContent", id)} ELSE {})]

\* the if (entry) branch: update only what changed
UpdateMarker(st, v, heading, color) ==
    LET id == v.vehicleId
        e0 == st.markerMap[id]
        moved == PositionChanged(e0.marker.latlng, v)
        icon == IconStale(e0, heading, color)
        popup == PopupStale(e0, heading, v)
        e1 == IF moved THEN [e0 EXCEPT !.marker.latlng = <<v.lat, v.lng>>] ELSE e0
        e2 == IF icon
              THEN [e1 EXCEPT !.marker.icon = makeVehicleIcon(heading, color),
                              !.heading = heading, !.color = color]
              ELSE e1
        e3 == IF popup
              THEN [e2 EXCEPT !.marker.popup = makeVehiclePopup(v), !.speed = v.speed]
              ELSE e2
    IN  [st EXCEPT !.markerMap[id] = e3,
                   !.ops = @ \cup (IF moved THEN {Op("setLatLng", id)} ELSE {})
                             \cup (IF icon THEN {Op("setIcon", id)} ELSE {})
                             \cup (IF popup THEN {Op("setPopupContent", id)} ELSE {})]

\* mutant: every report gets a new marker
ProcessPositionRecreates(st, v, knownIds) ==
    LET color == VehicleColor(knownIds, v.vehicleId)
        heading == HeadingOrZero(v)
        seen == [st EXCEPT !.seenIds = @ \cup {v.vehicleId}]
    IN  CreateMarker(seen, v, heading, color)

\* the body of for (const v of data)
ProcessPosition(st, v, knownIds) ==
    LET color == VehicleColor(knownIds, v.vehicleId)
        heading == HeadingOrZero(v)
        seen == [st EXCEPT !.seenIds = @ \cup {v.vehicleId}]
    IN  IF v.vehicleId \in DOMAIN st.markerMap
        THEN UpdateMarker(seen, v, heading, color)
        ELSE CreateMarker(seen, v, heading, color)

RECURSIVE ProcessAll(_, _, _, _)
ProcessAll(st, data, i, knownIds) ==
    IF i > Len(data) THEN st
    ELSE ProcessAll(ProcessPosition(st, data[i], knownIds), data, i + 1, knownIds)

\* mutant: the removal loop is missing
RemoveUnseenKeepsAll(st) == st

\* for (const [id, entry] of markerMap) if (!seenIds.has(id)) { removeLayer; delete }
RemoveUnseen(st) ==
    LET gone == DOMAIN st.markerMap \ st.seenIds
    IN  [st EXCEPT !.markerMap = [id \in DOMAIN st.markerMap \ gone |-> st.markerMap[id]],
                   !.markerLayer = @ \ {st.markerMap[id].marker.h : id \in gone},
                   !.ops = @ \cup {Op("remove", id) : id \in gone}]

\* mutant: the registry is not reset with the layer
ClearMarkersForgotten(mm) == mm

\* markerMap.clear()
ClearMarkers(mm) == EmptyMap

\* the visible part of refresh(), from knownIds to the removal loop
Reconcile(mm, layer, data, registered) ==
    RemoveUnseen(
        ProcessAll([markerMap |-> mm, markerLayer |-> layer, ops |-> {}, seenIds |-> {}],
                   data, 1, KnownIds(registered)))

(***************************************************************************)
(* The host component (DVPMapViewer.vue).                                  *)
(***************************************************************************)
Init ==
    /\ host = "setup"
    /\ vehicles = <<>>
    /\ registeredVehicles = <<>>
    /\ selectedVehicleId = NoVehicle
    /\ visible = TRUE
    /\ markerMap = EmptyMap
    /\ markerLayer = {}
    /\ layerOnMap = FALSE
    /\ trackPolyline = NoHandle
    /\ polylines = EmptyMap
    /\ timer = NoHandle
    /\ intervals = {}
    /\ refreshInFlight = 0
    /\ regInFlight = 0
    /\ trackInFlight = [id \in VehicleIds |-> 0]
    /\ mockTool = MockInit
    /\ synced = FALSE
    /\ last = Blank("init", {})

\* onMounted: map = L.map(...)
MountMap ==
    /\ host = "setup"
    /\ host' = "mounted"
    /\ last' = Did("MountMap", {})
    /\ UNCHANGED <<vehicles, registeredVehicles, visible, registryVars, trackVars,
                   timer, intervals, refreshInFlight, regInFlight, synced>>
    /\ UNCHANGED mockTool

\* the host's own onUnmounted hook, run right after the composable's:
\* if (mockMode.value) { cancelMockPoint(); map?.off('click', mockClickHandler) }
\* map.off(); map.remove(); map = null.  map.remove() removes every layer.
RemoveMap ==
    /\ host = "stopping"
    /\ host' = "unmounted"
    /\ layerOnMap' = FALSE
    /\ polylines' = [h \in {k \in DOMAIN polylines : k = trackPolyline} |->
                        [polylines[h] EXCEPT !.onMap = FALSE]]
    /\ mockTool' = [(IF mockTool.mockMode THEN cancelMockPoint(mockTool) ELSE mockTool)
                        EXCEPT !.clickBound = FALSE, !.markers = EmptyMap]
    /\ last' = Did("RemoveMap", {})
    /\ UNCHANGED <<vehicles, registeredVehicles, visible, markerMap, markerLayer,
                   selectedVehicleId, trackPolyline, trackInFlight,
                   timer, intervals, refreshInFlight, regInFlight, synced>>

(***************************************************************************)
(* refresh()                                                               *)
(***************************************************************************)
\* refresh() up to its await: const map = getMap(); if (!map) return; fetch
RefreshIssued(n) == IF MapPresent THEN n + 1 ELSE n

\* a caller of refresh() is modelled only while the fetch fits the bound
CanRefresh == MapPresent => refreshInFlight < MaxInFlight

\* refresh() called by the host (after a mock point is saved or cleared)
Refresh ==
    /\ Callable
    /\ CanRefresh
    /\ refreshInFlight' = RefreshIssued(refreshInFlight)
    /\ last' = Kept(Did("Refresh", {}), last)
    /\ UNCHANGED <<host, vehicles, registeredVehicles, visible, registryVars,
                   trackVars, timer, intervals, regInFlight, synced>>
    /\ UNCHANGED mockTool

\* mutant: the interval fires without calling refresh()
TickIdle ==
    /\ intervals # {}
    /\ host # "stopping"
    /\ last' = Kept(Did("Tick", {}), last)
    /\ UNCHANGED <<host, vehicles, registeredVehicles, visible, registryVars,
                   trackVars, timer, intervals, refreshInFlight, regInFlight, synced>>
    /\ UNCHANGED mockTool

\* an armed interval fires: setInterval(refresh, intervalMs)
Tick ==
    /\ intervals # {}
    /\ host # "stopping"
    /\ CanRefresh
    /\ refreshInFlight' = RefreshIssued(refreshInFlight)
    /\ last' = Kept(Did("Tick", {}), last)
    /\ UNCHANGED <<host, vehicles, registeredVehicles, visible, registryVars,
                   trackVars, timer, intervals, regInFlight, synced>>
    /\ UNCHANGED mockTool

\* markerLayer.addTo(map) on the map captured before the await.  On a map
\* that was removed meanwhile Leaflet either registers the layer or throws
\* into the catch: both outcomes are kept.
AttachOutcomes == IF host = "unmounted" THEN BOOLEAN ELSE {TRUE}

\* mutant: the snapshot is reconciled although tracking is hidden
RefreshStoredReconciles(data) ==
    /\ refreshInFlight > 0
    /\ host # "stopping"
    /\ ~visible
    /\ refreshInFlight' = refreshInFlight - 1
    /\ vehicles' = data
    /\ synced' = FALSE
    /\ LET st == Reconcile(markerMap, markerLayer, data, registeredVehicles)
       IN  /\ markerMap' = st.markerMap
           /\ markerLayer' = st.markerLayer
           /\ layerOnMap' = TRUE
    /\ \E c \in Completing :
          last' = Settled([Did("RefreshStored", {}) EXCEPT !.data = data], c, TRUE)
    /\ UNCHANGED <<host, registeredVehicles, visible, trackVars,
                   timer, intervals, regInFlight>>
    /\ UNCHANGED mockTool

\* the continuation of refresh() after a successful fetch, tracking hidden:
\* vehicles.value = data; if (!visible.value) return
RefreshStored(data) ==
    /\ refreshInFlight > 0
    /\ host # "stopping"
    /\ ~visible
    /\ refreshInFlight' = refreshInFlight - 1
    /\ vehicles' = data
    /\ synced' = FALSE
    /\ \E c \in Completing :
          last' = Settled([Did("RefreshStored", {}) EXCEPT !.data = data], c, TRUE)
    /\ UNCHANGED <<host, registeredVehicles, visible, registryVars, trackVars,
                   timer, intervals, regInFlight>>
    /\ UNCHANGED mockTool

\* mutant: the reconcile runs whether tracking is visible or not
RefreshReconciledAlways(data, attached) ==
    /\ refreshInFlight > 0
    /\ host # "stopping"
    /\ refreshInFlight' = refreshInFlight - 1
    /\ vehicles' = data
    /\ LET st == Reconcile(markerMap, markerLayer, data, registeredVehicles)
       IN  /\ markerMap' = st.markerMap
           /\ markerLayer' = st.markerLayer
           /\ layerOnMap' = (layerOnMap \/ attached)
           /\ \E c \in Completing :
                 last' = Settled(
                     Rebuilt([Did("RefreshReconciled",
                                  st.ops \cup
                                  (IF ~layerOnMap /\ attached
                                   THEN {Op("attach", NoVehicle)} ELSE {}))
                              EXCEPT !.diff = Given(markerMap, data, registeredVehicles),
                                     !.data = data,
                                     !.repeat = synced /\ data = vehicles,
                                     !.pass = Passed(last, markerMap, data)],
                             last, data = vehicles),
                     c, TRUE)
    /\ synced' = TRUE
    /\ UNCHANGED <<host, registeredVehicles, visible, trackVars,
                   timer, intervals, regInFlight>>
    /\ UNCHANGED mockTool

\* mutant: the response of an overtaken fetch is dropped
RefreshReconciledGuarded(data, attached) ==
    /\ refreshInFlight > 0
    /\ host # "stopping"
    /\ visible
    /\ refreshInFlight' = refreshInFlight - 1
    /\ \E c \in Completing :
          LET st == Reconcile(markerMap, markerLayer, data, registeredVehicles)
              rec == Settled([Did("RefreshReconciled", st.ops) EXCEPT !.data = data],
                             c, TRUE)
          IN  IF c = 0
              THEN /\ last' = [rec EXCEPT !.ops = {}]
                   /\ UNCHANGED <<vehicles, registryVars, synced>>
              ELSE /\ last' = rec
                   /\ vehicles' = data
                   /\ markerMap' = st.markerMap
                   /\ markerLayer' = st.markerLayer
                   /\ layerOnMap' = (layerOnMap \/ attached)
                   /\ synced' = TRUE
    /\ UNCHANGED <<host, registeredVehicles, visible, trackVars,
                   timer, intervals, regInFlight>>
    /\ UNCHANGED mockTool

\* mutant: removing the marker of the selected vehicle deselects it
RefreshReconciledDeselects(data, attached) ==
    /\ refreshInFlight > 0
    /\ host # "stopping"
    /\ visible
    /\ refreshInFlight' = refreshInFlight - 1
    /\ vehicles' = data
    /\ LET st == Reconcile(markerMap, markerLayer, data, registeredVehicles)
       IN  /\ markerMap' = st.markerMap
           /\ markerLayer' = st.markerLayer
           /\ layerOnMap' = (layerOnMap \/ attached)
           /\ selectedVehicleId' =
                  IF Op("remove", selectedVehicleId) \in st.ops
                  THEN NoVehicle ELSE selectedVehicleId
           /\ \E c \in Completing :
                 last' = Settled(
                     Rebuilt([Did("RefreshReconciled",
                                  st.ops \cup
                                  (IF ~layerOnMap /\ attached
                                   THEN {Op("attach", NoVehicle)} ELSE {}))
                              EXCEPT !.diff = Given(markerMap, data, registeredVehicles),
                                     !.data = data,
                                     !.repeat = synced /\ data = vehicles,
                                     !.pass = Passed(last, markerMap, data)],
                             last, data = vehicles),
                     c, TRUE)
    /\ synced' = TRUE
    /\ UNCHANGED <<host, registeredVehicles, visible, trackPolyline, polylines,
                   trackInFlight, timer, intervals, regInFlight>>
    /\ UNCHANGED mockTool

\* the continuation of refresh() after a successful fetch, tracking visible:
\* store the snapshot, reconcile, attach the layer if it is not on the map
RefreshReconciled(data, attached) ==
    /\ refreshInFlight > 0
    /\ host # "stopping"
    /\ visible
    /\ refreshInFlight' = refreshInFlight - 1
    /\ vehicles' = data
    /\ LET st == Reconcile(markerMap, markerLayer, data, registeredVehicles)
       IN  /\ markerMap' = st.markerMap
           /\ markerLayer' = st.markerLayer
           /\ layerOnMap' = (layerOnMap \/ attached)
           /\ \E c \in Completing :
                 last' = Settled(
                     Rebuilt([Did("RefreshReconciled",
                                  st.ops \cup
                                  (IF ~layerOnMap /\ attached
                                   THEN {Op("attach", NoVehicle)} ELSE {}))
                              EXCEPT !.diff = Given(markerMap, data, registeredVehicles),
                                     !.data = data,
                                     !.repeat = synced /\ data = vehicles,
                                     !.pass = Passed(last, markerMap, data)],
                             last, data = vehicles),
                     c, TRUE)
    /\ synced' = TRUE
    /\ UNCHANGED <<host, registeredVehicles, visible, trackVars,
                   timer, intervals, regInFlight>>
    /\ UNCHANGED mockTool

\* mutant: a failed fetch purges the stored snapshot
RefreshFailedPurges ==
    /\ refreshInFlight > 0
    /\ host # "stopping"
    /\ refreshInFlight' = refreshInFlight - 1
    /\ vehicles' = <<>>
    /\ \E c \in Completing : last' = Settled(Did("RefreshFailed", {}), c, FALSE)
    /\ UNCHANGED <<host, registeredVehicles, visible, registryVars,
                   trackVars, timer, intervals, regInFlight, synced>>
    /\ UNCHANGED mockTool

\* the fetch throws, or the response is not ok: nothing is touched
RefreshFailed ==
    /\ refreshInFlight > 0
    /\ host # "stopping"
    /\ refreshInFlight' = refreshInFlight - 1
    /\ \E c \in Completing :
          last' = Settled(Kept(Did("RefreshFailed", {}), last), c, FALSE)
    /\ UNCHANGED <<host, vehicles, registeredVehicles, visible, registryVars,
                   trackVars, timer, intervals, regInFlight, synced>>
    /\ UNCHANGED mockTool

(***************************************************************************)
(* fetchRegisteredVehicles()                                               *)
(***************************************************************************)
FetchRegisteredVehicles ==
    /\ Callable
    /\ regInFlight < MaxRegInFlight
    /\ regInFlight' = regInFlight + 1
    /\ last' = Did("FetchRegisteredVehicles", {})
    /\ UNCHANGED <<host, vehicles, registeredVehicles, visible, registryVars,
                   trackVars, timer, intervals, refreshInFlight, synced>>
    /\ UNCHANGED mockTool

\* if (res.ok) registeredVehicles.value = await res.json()
RegisteredLoaded(list) ==
    /\ regInFlight > 0
    /\ host # "stopping"
    /\ regInFlight' = regInFlight - 1
    /\ registeredVehicles' = list
    /\ synced' = (synced /\ list = registeredVehicles)
    /\ last' = Did("RegisteredLoaded", {})
    /\ UNCHANGED <<host, vehicles, visible, registryVars, trackVars,
                   timer, intervals, refreshInFlight>>
    /\ UNCHANGED mockTool

RegisteredFailed ==
    /\ regInFlight > 0
    /\ host # "stopping"
    /\ regInFlight' = regInFlight - 1
    /\ last' = Did("RegisteredFailed", {})
    /\ UNCHANGED <<host, vehicles, registeredVehicles, visible, registryVars,
                   trackVars, timer, intervals, refreshInFlight, synced>>
    /\ UNCHANGED mockTool

(***************************************************************************)
(* selectVehicle(), clearTrack()                                           *)
(***************************************************************************)
TrackFetches == LET Sum[S \in SUBSET VehicleIds] ==
                        IF S = {} THEN 0
                        ELSE LET x == CHOOSE y \in S : TRUE
                             IN  trackInFlight[x] + Sum[S \ {x}]
                IN  Sum[VehicleIds]

\* polylines on the map that trackPolyline no longer refers to
Leaked == {h \in DOMAIN polylines : polylines[h].onMap /\ h # trackPolyline}

\* trackPolyline?.remove(); trackPolyline = null: the line leaves the map
\* and nothing refers to it any more
WithoutTrack == [h \in DOMAIN polylines \ {trackPolyline} |-> polylines[h]]

\* mutant: selectVehicle() does not look at the map before selecting
SelectVehicleUnguarded(id) ==
    /\ Callable
    /\ MapPresent => /\ TrackFetches < MaxTrackInFlight
                     /\ (TrackFetches = 0 \/ Cardinality(Leaked) < MaxLeaked)
    /\ selectedVehicleId' = id
    /\ polylines' = WithoutTrack
    /\ trackPolyline' = NoHandle
    /\ trackInFlight' = IF MapPresent THEN [trackInFlight EXCEPT ![id] = @ + 1]
                        ELSE trackInFlight
    /\ last' = Did("SelectVehicle", {})
    /\ UNCHANGED <<host, vehicles, registeredVehicles, visible, registryVars,
                   timer, intervals, refreshInFlight, regInFlight, synced>>
    /\ UNCHANGED mockTool

\* selectVehicle() up to its await
SelectVehicle(id) ==
    /\ Callable
    /\ MapPresent => /\ TrackFetches < MaxTrackInFlight
                     /\ (TrackFetches = 0 \/ Cardinality(Leaked) < MaxLeaked)
    /\ IF MapPresent
       THEN /\ selectedVehicleId' = id
            /\ polylines' = WithoutTrack
            /\ trackPolyline' = NoHandle
            /\ trackInFlight' = [trackInFlight EXCEPT ![id] = @ + 1]
       ELSE UNCHANGED trackVars
    /\ last' = Did("SelectVehicle", {})
    /\ UNCHANGED <<host, vehicles, registeredVehicles, visible, registryVars,
                   timer, intervals, refreshInFlight, regInFlight, synced>>
    /\ UNCHANGED mockTool

\* the continuation of selectVehicle() with at least 2 points:
\* trackPolyline = L.polyline(points.map(p => [p.lat, p.lng]), ...).addTo(map)
\* When addTo throws (removed map) the assignment does not happen.
TrackDrawn(id, points, attached) ==
    /\ trackInFlight[id] > 0
    /\ host # "stopping"
    /\ Len(points) >= 2
    /\ trackInFlight' = [trackInFlight EXCEPT ![id] = @ - 1]
    /\ IF attached
       THEN LET kept == {h \in DOMAIN polylines : polylines[h].onMap}
                new == FreshHandle(kept)
            IN  /\ polylines' = (new :> [vehicleId |-> id, points |-> LatLngs(points),
                                         onMap |-> TRUE])
                                @@ [h \in kept |-> polylines[h]]
                /\ trackPolyline' = new
       ELSE UNCHANGED <<polylines, trackPolyline>>
    /\ last' = [Did("TrackDrawn", {}) EXCEPT !.data = points]
    /\ UNCHANGED <<host, vehicles, registeredVehicles, visible, registryVars,
                   selectedVehicleId, timer, intervals, refreshInFlight, regInFlight, synced>>
    /\ UNCHANGED mockTool

\* if (points.length < 2) return
TrackSkipped(id, points) ==
    /\ trackInFlight[id] > 0
    /\ host # "stopping"
    /\ Len(points) < 2
    /\ trackInFlight' = [trackInFlight EXCEPT ![id] = @ - 1]
    /\ last' = [Did("TrackSkipped", {}) EXCEPT !.data = points]
    /\ UNCHANGED <<host, vehicles, registeredVehicles, visible, registryVars,
                   selectedVehicleId, trackPolyline, polylines,
                   timer, intervals, refreshInFlight, regInFlight, synced>>
    /\ UNCHANGED mockTool

\* if (!res.ok) return, or the fetch throws
TrackFailed(id) ==
    /\ trackInFlight[id] > 0
    /\ host # "stopping"
    /\ trackInFlight' = [trackInFlight EXCEPT ![id] = @ - 1]
    /\ last' = Did("TrackFailed", {})
    /\ UNCHANGED <<host, vehicles, registeredVehicles, visible, registryVars,
                   selectedVehicleId, trackPolyline, polylines,
                   timer, intervals, refreshInFlight, regInFlight, synced>>
    /\ UNCHANGED mockTool

\* mutant: clearTrack() keeps the selection
ClearTrackKeepsSelection ==
    /\ Callable
    /\ polylines' = WithoutTrack
    /\ trackPolyline' = NoHandle
    /\ last' = Did("ClearTrack", IF trackPolyline \in DOMAIN polylines
                                 THEN {Op("removeTrack", polylines[trackPolyline].vehicleId)}
                                 ELSE {})
    /\ UNCHANGED <<host, vehicles, registeredVehicles, visible, registryVars,
                   selectedVehicleId,
                   trackInFlight, timer, intervals, refreshInFlight, regInFlight, synced>>
    /\ UNCHANGED mockTool

\* trackPolyline?.remove(); trackPolyline = null; selectedVehicleId.value = null
ClearTrack ==
    /\ Callable
    /\ polylines' = WithoutTrack
    /\ trackPolyline' = NoHandle
    /\ selectedVehicleId' = NoVehicle
    /\ last' = Did("ClearTrack", IF trackPolyline \in DOMAIN polylines
                                 THEN {Op("removeTrack", polylines[trackPolyline].vehicleId)}
                                 ELSE {})
    /\ UNCHANGED <<host, vehicles, registeredVehicles, visible, registryVars,
                   trackInFlight, timer, intervals, refreshInFlight, regInFlight, synced>>
    /\ UNCHANGED mockTool

(***************************************************************************)
(* toggleVisibility(), start(), stop()                                     *)
(***************************************************************************)
\* mutant: hiding does not take the layer off the map
ToggleVisibilityKeepsLayer ==
    /\ Callable
    /\ (MapPresent /\ ~visible) => refreshInFlight < MaxInFlight
    /\ IF ~MapPresent
       THEN /\ UNCHANGED <<visible, registryVars, refreshInFlight, synced>>
            /\ last' = Did("ToggleVisibility", {})
       ELSE /\ visible' = ~visible
            /\ IF ~visible
               THEN \* now visible: refresh()
                    /\ refreshInFlight' = RefreshIssued(refreshInFlight)
                    /\ UNCHANGED <<registryVars, synced>>
                    /\ last' = Shown(Did("ToggleVisibility", {}), last)
               ELSE \* now hidden: clearLayers, markerMap.clear
                    /\ UNCHANGED layerOnMap
                    /\ markerLayer' = {}
                    /\ markerMap' = ClearMarkers(markerMap)
                    /\ synced' = FALSE
                    /\ last' = Hidden(Did("ToggleVisibility", {Op("clear", NoVehicle)}),
                                       markerMap, synced)
                    /\ UNCHANGED refreshInFlight
    /\ UNCHANGED <<host, vehicles, registeredVehicles, trackVars,
                   timer, intervals, regInFlight>>
    /\ UNCHANGED mockTool

\* mutant: showing does not call refresh()
ToggleVisibilityShowsOnly ==
    /\ Callable
    /\ (MapPresent /\ ~visible) => refreshInFlight < MaxInFlight
    /\ IF ~MapPresent
       THEN /\ UNCHANGED <<visible, registryVars, refreshInFlight, synced>>
            /\ last' = Did("ToggleVisibility", {})
       ELSE /\ visible' = ~visible
            /\ IF ~visible
               THEN \* now visible
                    /\ UNCHANGED <<registryVars, synced, refreshInFlight>>
                    /\ last' = Shown(Did("ToggleVisibility", {}), last)
               ELSE \* now hidden: removeLayer, clearLayers, markerMap.clear
                    /\ layerOnMap' = FALSE
                    /\ markerLayer' = {}
                    /\ markerMap' = ClearMarkers(markerMap)
                    /\ synced' = FALSE
                    /\ last' = Hidden(Did("ToggleVisibility", {Op("clear", NoVehicle)}),
                                       markerMap, synced)
                    /\ UNCHANGED refreshInFlight
    /\ UNCHANGED <<host, vehicles, registeredVehicles, trackVars,
                   timer, intervals, regInFlight>>
    /\ UNCHANGED mockTool

ToggleVisibility ==
    /\ Callable
    /\ (MapPresent /\ ~visible) => refreshInFlight < MaxInFlight
    /\ IF ~MapPresent
       THEN /\ UNCHANGED <<visible, registryVars, refreshInFlight, synced>>
            /\ last' = Did("ToggleVisibility", {})
       ELSE /\ visible' = ~visible
            /\ IF ~visible
               THEN \* now visible: refresh()
                    /\ refreshInFlight' = RefreshIssued(refreshInFlight)
                    /\ UNCHANGED <<registryVars, synced>>
                    /\ last' = Shown(Did("ToggleVisibility", {}), last)
               ELSE \* now hidden: removeLayer, clearLayers, markerMap.clear
                    /\ layerOnMap' = FALSE
                    /\ markerLayer' = {}
                    /\ markerMap' = ClearMarkers(markerMap)
                    /\ synced' = FALSE
                    /\ last' = Hidden(Did("ToggleVisibility", {Op("clear", NoVehicle)}),
                                       markerMap, synced)
                    /\ UNCHANGED refreshInFlight
    /\ UNCHANGED <<host, vehicles, registeredVehicles, trackVars,
                   timer, intervals, regInFlight>>
    /\ UNCHANGED mockTool

\* mutant: start() does not fetch the registered vehicles
StartSkipsRegistered ==
    /\ Callable
    /\ Cardinality(intervals) < MaxStarts
    /\ CanRefresh
    /\ refreshInFlight' = RefreshIssued(refreshInFlight)
    /\ LET h == FreshHandle(intervals)
       IN  /\ timer' = h
           /\ intervals' = intervals \cup {h}
    /\ last' = Did("Start", {})
    /\ UNCHANGED <<host, vehicles, registeredVehicles, visible, registryVars,
                   trackVars, regInFlight, synced>>
    /\ UNCHANGED mockTool

\* fetchRegisteredVehicles(); refresh(); timer = setInterval(refresh, intervalMs)
Start ==
    /\ Callable
    /\ Cardinality(intervals) < MaxStarts
    /\ regInFlight < MaxRegInFlight
    /\ CanRefresh
    /\ regInFlight' = regInFlight + 1
    /\ refreshInFlight' = RefreshIssued(refreshInFlight)
    /\ LET h == FreshHandle(intervals)
       IN  /\ timer' = h
           /\ intervals' = intervals \cup {h}
    /\ last' = Did("Start", {})
    /\ UNCHANGED <<host, vehicles, registeredVehicles, visible, registryVars,
                   trackVars, synced>>
    /\ UNCHANGED mockTool

\* the composable's state, as stop() sees it
Cur ==
    [timer |-> timer, intervals |-> intervals,
     markerMap |-> markerMap, markerLayer |-> markerLayer, layerOnMap |-> layerOnMap,
     trackPolyline |-> trackPolyline, polylines |-> polylines,
     vehicles |-> vehicles, registeredVehicles |-> registeredVehicles,
     visible |-> visible, selectedVehicleId |-> selectedVehicleId]

\* mutant: stop() leaves the interval running
stopKeepsTimer(s, map) ==
    [s EXCEPT !.timer = NoHandle,
              !.polylines = [h \in DOMAIN s.polylines |->
                                IF h = s.trackPolyline
                                THEN [s.polylines[h] EXCEPT !.onMap = FALSE]
                                ELSE s.polylines[h]],
              !.layerOnMap = IF map THEN FALSE ELSE s.layerOnMap,
              !.markerLayer = {},
              !.markerMap = ClearMarkers(s.markerMap)]

\* mutant: stop() flips visible
stopTogglesVisible(s, map) ==
    [s EXCEPT !.intervals = s.intervals \ {s.timer},
              !.timer = NoHandle,
              !.polylines = [h \in DOMAIN s.polylines |->
                                IF h = s.trackPolyline
                                THEN [s.polylines[h] EXCEPT !.onMap = FALSE]
                                ELSE s.polylines[h]],
              !.layerOnMap = IF map THEN FALSE ELSE s.layerOnMap,
              !.markerLayer = {},
              !.markerMap = ClearMarkers(s.markerMap),
              !.visible = ~s.visible]

\* stop(), on the state s, map telling whether getMap() returns a map:
\* if (timer) { clearInterval(timer); timer = null }; trackPolyline?.remove();
\* if (map) map.removeLayer(markerLayer); markerLayer.clearLayers();
\* markerMap.clear().  trackPolyline keeps referring to the removed line.
stop(s, map) ==
    [s EXCEPT !.intervals = s.intervals \ {s.timer},
              !.timer = NoHandle,
              !.polylines = [h \in DOMAIN s.polylines |->
                                IF h = s.trackPolyline
                                THEN [s.polylines[h] EXCEPT !.onMap = FALSE]
                                ELSE s.polylines[h]],
              !.layerOnMap = IF map THEN FALSE ELSE s.layerOnMap,
              !.markerLayer = {},
              !.markerMap = ClearMarkers(s.markerMap)]

\* onUnmounted(stop): the composable's hook runs before the host's own
Stop ==
    /\ host = "mounted"
    /\ host' = "stopping"
    /\ LET s == stop(Cur, MapPresent)
       IN  /\ intervals' = s.intervals
           /\ timer' = s.timer
           /\ polylines' = s.polylines
           /\ layerOnMap' = s.layerOnMap
           /\ markerLayer' = s.markerLayer
           /\ markerMap' = s.markerMap
           /\ vehicles' = s.vehicles
           /\ registeredVehicles' = s.registeredVehicles
           /\ visible' = s.visible
           /\ selectedVehicleId' = s.selectedVehicleId
           /\ trackPolyline' = s.trackPolyline
    /\ synced' = FALSE
    /\ last' = [Did("Stop", {Op("clear", NoVehicle)}) EXCEPT !.before = Icons(markerMap)]
    /\ UNCHANGED <<trackInFlight, refreshInFlight, regInFlight>>
    /\ UNCHANGED mockTool

(***************************************************************************)
(* The host's mock GPS tool: its handlers.                                 *)
(***************************************************************************)
\* toggleMockMode(): on, register the click handler on the map if there is
\* one; off, cancelMockPoint() and unregister it
ToggleMockMode ==
    /\ Callable
    /\ mockTool' =
          IF ~mockTool.mockMode
          THEN [mockTool EXCEPT !.mockMode = TRUE, !.clickBound = MapPresent]
          ELSE [cancelMockPoint(mockTool) EXCEPT !.mockMode = FALSE, !.clickBound = FALSE]
    /\ last' = Did("ToggleMockMode", {})
    /\ UNCHANGED <<host, vehicles, registeredVehicles, visible, registryVars,
                   trackVars, timer, intervals, refreshInFlight, regInFlight, synced>>

\* mutant: a click adds a marker without removing the pending one
MockClickHandlerStacks(p) ==
    /\ host = "mounted"
    /\ mockTool.clickBound \/ mockTool.mockMode
    /\ LET h == FreshHandle(DOMAIN mockTool.markers \cup {mockTool.pendingMarker})
       IN  mockTool' = [mockTool EXCEPT
                           !.markers = (h :> <<p.lat, p.lng>>) @@ mockTool.markers,
                           !.pendingMarker = h,
                           !.pendingPoint = p]
    /\ last' = Did("MockClickHandler", {})
    /\ UNCHANGED <<host, vehicles, registeredVehicles, visible, registryVars,
                   trackVars, timer, intervals, refreshInFlight, regInFlight, synced>>

\* mockClickHandler(e), run by a click on the map (handler registered) or on
\* a feature (mockMode set): pendingMarker?.remove(); pendingMarker =
\* L.marker(e.latlng).addTo(map); pendingPoint.value = e.latlng
MockClickHandler(p) ==
    /\ host = "mounted"
    /\ mockTool.clickBound \/ mockTool.mockMode
    /\ LET removed == Detached(mockTool.markers, mockTool.pendingMarker)
           h == FreshHandle(DOMAIN mockTool.markers \cup {mockTool.pendingMarker})
       IN  mockTool' = [mockTool EXCEPT
                           !.markers = (h :> <<p.lat, p.lng>>) @@ removed,
                           !.pendingMarker = h,
                           !.pendingPoint = p]
    /\ last' = Did("MockClickHandler", {})
    /\ UNCHANGED <<host, vehicles, registeredVehicles, visible, registryVars,
                   trackVars, timer, intervals, refreshInFlight, regInFlight, synced>>

\* the body of the POST: the heading points from the vehicle's last mock
\* point to this one, null for its first point
MockBody(id, speed) ==
    [vehicleId |-> id,
     lat |-> mockTool.pendingPoint.lat,
     lng |-> mockTool.pendingPoint.lng,
     speed |-> speed,
     heading |-> IF id \in DOMAIN mockTool.lastMockPoints
                 THEN MockHeading(mockTool.lastMockPoints[id], mockTool.pendingPoint)
                 ELSE Null]

\* saveMockPoint() up to its await, with mockVehicleId = id and mockSpeed =
\* speed: nothing without a pending point; else remember the point, remove
\* the pending marker, clear the pending point, POST
SaveMockPoint(id, speed) ==
    /\ Callable
    /\ IF mockTool.pendingPoint = NoPoint
       THEN UNCHANGED mockTool
       ELSE /\ Cardinality(mockTool.posts) < MaxMockInFlight
            /\ mockTool.mockPointCount + Cardinality(mockTool.posts) < MaxMockPoints
            /\ MockBody(id, speed) \notin mockTool.posts
            /\ mockTool' = [mockTool EXCEPT
                   !.lastMockPoints = (id :> mockTool.pendingPoint) @@ @,
                   !.markers = Detached(mockTool.markers, mockTool.pendingMarker),
                   !.pendingMarker = NoHandle,
                   !.pendingPoint = NoPoint,
                   !.posts = @ \cup {MockBody(id, speed)}]
    /\ last' = Did("SaveMockPoint", {})
    /\ UNCHANGED <<host, vehicles, registeredVehicles, visible, registryVars,
                   trackVars, timer, intervals, refreshInFlight, regInFlight, synced>>

\* the continuation of saveMockPoint() after res.ok: mockPointCount++,
\* refreshVehicles()
MockSaved(body) ==
    /\ body \in mockTool.posts
    /\ host # "stopping"
    /\ CanRefresh
    /\ mockTool' = [mockTool EXCEPT !.posts = @ \ {body}, !.mockPointCount = @ + 1]
    /\ refreshInFlight' = RefreshIssued(refreshInFlight)
    /\ last' = Did("MockSaved", {})
    /\ UNCHANGED <<host, vehicles, registeredVehicles, visible, registryVars,
                   trackVars, timer, intervals, regInFlight, synced>>

\* the POST is answered with an error status, or fetch throws into the catch
MockRejected(body) ==
    /\ body \in mockTool.posts
    /\ host # "stopping"
    /\ mockTool' = [mockTool EXCEPT !.posts = @ \ {body}]
    /\ last' = Did("MockRejected", {})
    /\ UNCHANGED <<host, vehicles, registeredVehicles, visible, registryVars,
                   trackVars, timer, intervals, refreshInFlight, regInFlight, synced>>

\* the "Hủy" button
CancelMockPoint ==
    /\ Callable
    /\ mockTool' = cancelMockPoint(mockTool)
    /\ last' = Did("CancelMockPoint", {})
    /\ UNCHANGED <<host, vehicles, registeredVehicles, visible, registryVars,
                   trackVars, timer, intervals, refreshInFlight, regInFlight, synced>>

\* clearMockData() up to its await, with mockVehicleId = id: nothing when
\* the user declines; else cancelMockPoint() and DELETE
ClearMockData(id, confirmed) ==
    /\ Callable
    /\ IF ~confirmed
       THEN UNCHANGED mockTool
       ELSE /\ Cardinality(mockTool.deletes) < MaxMockInFlight
            /\ id \notin mockTool.deletes
            /\ mockTool' = [cancelMockPoint(mockTool) EXCEPT !.deletes = @ \cup {id}]
    /\ last' = Did("ClearMockData", {})
    /\ UNCHANGED <<host, vehicles, registeredVehicles, visible, registryVars,
                   trackVars, timer, intervals, refreshInFlight, regInFlight, synced>>

\* the continuation of clearMockData() once the DELETE for id is answered,
\* mockVehicleId being now: mockPointCount = 0,
\* lastMockPoints.delete(mockVehicleId.value), refreshVehicles()
MockCleared(id, now) ==
    /\ id \in mockTool.deletes
    /\ host # "stopping"
    /\ CanRefresh
    /\ mockTool' = [mockTool EXCEPT
           !.deletes = @ \ {id},
           !.mockPointCount = 0,
           !.lastMockPoints = [k \in DOMAIN @ \ {now} |-> @[k]]]
    /\ refreshInFlight' = RefreshIssued(refreshInFlight)
    /\ last' = Did("MockCleared", {})
    /\ UNCHANGED <<host, vehicles, registeredVehicles, visible, registryVars,
                   trackVars, timer, intervals, regInFlight, synced>>

\* the DELETE fails on the network: fetch throws, nothing catches it
MockClearFailed(id) ==
    /\ id \in mockTool.deletes
    /\ host # "stopping"
    /\ mockTool' = [mockTool EXCEPT !.deletes = @ \ {id}]
    /\ last' = Did("MockClearFailed", {})
    /\ UNCHANGED <<host, vehicles, registeredVehicles, visible, registryVars,
                   trackVars, timer, intervals, refreshInFlight, regInFlight, synced>>

(***************************************************************************)
(* Specification.                                                          *)
(***************************************************************************)
\* The poll loop under the host component: start() is called once, from
\* onMounted; refresh() is also called after a mock point is saved or cleared;
\* the layer checkbox calls toggleVisibility().
Next ==
    \/ MountMap
    \/ (host = "mounted" /\ intervals = {} /\ Start)
    \/ Stop
    \/ RemoveMap
    \/ Tick
    \/ (host = "mounted" /\ Refresh)
    \/ \E data \in Snapshots : RefreshStored(data)
    \/ \E attached \in AttachOutcomes : \E data \in Snapshots :
          RefreshReconciled(data, attached)
    \/ RefreshFailed
    \/ \E list \in RegisteredLists : RegisteredLoaded(list)
    \/ RegisteredFailed
    \/ (host = "mounted" /\ ToggleVisibility)

Spec == Init /\ [][Next]_vars

\* The track loader under the host component.  selectVehicle() is called
\* from a list button or a marker click; neither it nor its continuation
\* reads the snapshot or the registry.
NextTrack ==
    \/ MountMap
    \/ Stop
    \/ RemoveMap
    \/ \E id \in VehicleIds : (host = "mounted" /\ SelectVehicle(id))
    \/ \E id \in VehicleIds : \E points \in TrackResponses :
          \E attached \in AttachOutcomes : TrackDrawn(id, points, attached)
    \/ \E id \in VehicleIds : \E points \in TrackResponses : TrackSkipped(id, points)
    \/ \E id \in VehicleIds : TrackFailed(id)
    \/ (host = "mounted" /\ selectedVehicleId # NoVehicle /\ ClearTrack)

SpecTrack == Init /\ [][NextTrack]_vars

\* The poll loop under the host component, on reports that turn and lose
\* their heading: A and B stay where they are, heading is null or a number.
TurnFleet == {v \in VehiclePosition :
    /\ v.speed = Null
    /\ \/ v.vehicleId = "A" /\ v.lat = 1 /\ v.lng = 1
       \/ v.vehicleId = "B" /\ v.lat = 2 /\ v.lng = 2 /\ v.heading # 0}

TurnSnapshots == SnapshotsOver(TurnFleet)

NextTurn ==
    \/ MountMap
    \/ (host = "mounted" /\ intervals = {} /\ Start)
    \/ Stop
    \/ RemoveMap
    \/ Tick
    \/ (host = "mounted" /\ Refresh)
    \/ \E data \in TurnSnapshots : RefreshStored(data)
    \/ \E attached \in AttachOutcomes : \E data \in TurnSnapshots :
          RefreshReconciled(data, attached)
    \/ RefreshFailed
    \/ \E list \in RegisteredLists : RegisteredLoaded(list)
    \/ RegisteredFailed
    \/ (host = "mounted" /\ ToggleVisibility)

SpecTurn == Init /\ [][NextTurn]_vars

\* Responses about one vehicle only.
LifeSnapshots ==
    {s \in Snapshots : \A i \in 1..Len(s) :
        s[i] = [vehicleId |-> "A", lat |-> 1, lng |-> 1, speed |-> Null, heading |-> 0]}

LifeRegistered == {l \in RegisteredLists : Range(l) \subseteq {"A"}}

LifeTracks == {t \in TrackResponses : Len(t) = 2 /\ t[1] # t[2] /\ t[1].lat = 1}

\* The poll loop under the host component on one vehicle, the order of the
\* snapshot fetches followed.
InitOrder ==
    /\ host = "setup"
    /\ vehicles = <<>>
    /\ registeredVehicles = <<>>
    /\ selectedVehicleId = NoVehicle
    /\ visible = TRUE
    /\ markerMap = EmptyMap
    /\ markerLayer = {}
    /\ layerOnMap = FALSE
    /\ trackPolyline = NoHandle
    /\ polylines = EmptyMap
    /\ timer = NoHandle
    /\ intervals = {}
    /\ refreshInFlight = 0
    /\ regInFlight = 0
    /\ trackInFlight = [id \in VehicleIds |-> 0]
    /\ mockTool = MockInit
    /\ synced = FALSE
    /\ last = [Blank("init", {}) EXCEPT !.ordered = TRUE]

NextOrder ==
    \/ MountMap
    \/ (host = "mounted" /\ intervals = {} /\ Start)
    \/ Stop
    \/ RemoveMap
    \/ Tick
    \/ (host = "mounted" /\ Refresh)
    \/ \E data \in LifeSnapshots : RefreshStored(data)
    \/ \E attached \in AttachOutcomes : \E data \in LifeSnapshots :
          RefreshReconciled(data, attached)
    \/ RefreshFailed
    \/ \E list \in LifeRegistered : RegisteredLoaded(list)
    \/ RegisteredFailed
    \/ (host = "mounted" /\ ToggleVisibility)

SpecOrder == InitOrder /\ [][NextOrder]_vars

\* The same under fairness: an armed interval keeps firing, and every fetch
\* is answered or fails in the end.
Response ==
    \/ \E data \in LifeSnapshots : RefreshStored(data)
    \/ \E attached \in AttachOutcomes : \E data \in LifeSnapshots :
          RefreshReconciled(data, attached)
    \/ RefreshFailed

SpecHeal ==
    InitOrder /\ [][NextOrder]_vars /\ WF_vars(Tick) /\ WF_vars(Response)

\* The composable under any caller of what it returns: start() and
\* toggleVisibility() are called at any time, start() more than once; stop()
\* runs when the component unmounts.
NextApi ==
    \/ MountMap
    \/ Start
    \/ Stop
    \/ RemoveMap
    \/ Tick
    \/ \E data \in LifeSnapshots : RefreshStored(data)
    \/ \E attached \in AttachOutcomes : \E data \in LifeSnapshots :
          RefreshReconciled(data, attached)
    \/ RefreshFailed
    \/ \E list \in LifeRegistered : RegisteredLoaded(list)
    \/ RegisteredFailed
    \/ ToggleVisibility

SpecApi == Init /\ [][NextApi]_vars

\* The whole composable under the host component, from mount to unmount, on
\* one vehicle: the poll loop, the layer checkbox and the track loader.
NextLife ==
    \/ MountMap
    \/ (host = "mounted" /\ intervals = {} /\ Start)
    \/ Stop
    \/ RemoveMap
    \/ Tick
    \/ \E data \in LifeSnapshots : RefreshStored(data)
    \/ \E attached \in AttachOutcomes : \E data \in LifeSnapshots :
          RefreshReconciled(data, attached)
    \/ RefreshFailed
    \/ \E list \in LifeRegistered : RegisteredLoaded(list)
    \/ (host = "mounted" /\ ToggleVisibility)
    \/ (host = "mounted" /\ SelectVehicle("A"))
    \/ \E points \in LifeTracks : \E attached \in AttachOutcomes :
          TrackDrawn("A", points, attached)
    \/ TrackFailed("A")
    \/ (host = "mounted" /\ selectedVehicleId # NoVehicle /\ ClearTrack)

SpecLife == Init /\ [][NextLife]_vars

\* Every function the composable returns, called by any caller at any time,
\* the time before the map exists and the time after it is gone included, on
\* one vehicle.
NextNoMap ==
    \/ MountMap
    \/ Start
    \/ Stop
    \/ RemoveMap
    \/ Tick
    \/ Refresh
    \/ \E data \in LifeSnapshots : RefreshStored(data)
    \/ \E attached \in AttachOutcomes : \E data \in LifeSnapshots :
          RefreshReconciled(data, attached)
    \/ RefreshFailed
    \/ \E list \in LifeRegistered : RegisteredLoaded(list)
    \/ ToggleVisibility
    \/ SelectVehicle("A")
    \/ \E points \in LifeTracks : \E attached \in AttachOutcomes :
          TrackDrawn("A", points, attached)
    \/ TrackFailed("A")

SpecNoMap == Init /\ [][NextNoMap]_vars

\* The mock GPS tool under the host component, its handlers called in any
\* order from setup to unmount, with the snapshot fetches they trigger.
NextMock ==
    \/ MountMap
    \/ Stop
    \/ RemoveMap
    \/ ToggleMockMode
    \/ \E p \in MockPoints : MockClickHandler(p)
    \/ \E id \in MockVehicleIds : \E speed \in MockSpeeds : SaveMockPoint(id, speed)
    \/ \E body \in mockTool.posts : MockSaved(body)
    \/ \E body \in mockTool.posts : MockRejected(body)
    \/ CancelMockPoint
    \/ \E id \in MockVehicleIds : \E confirmed \in BOOLEAN : ClearMockData(id, confirmed)
    \/ \E id, now \in MockVehicleIds : MockCleared(id, now)
    \/ \E id \in MockVehicleIds : MockClearFailed(id)
    \/ \E attached \in AttachOutcomes : \E data \in LifeSnapshots :
          RefreshReconciled(data, attached)
    \/ RefreshFailed

SpecMock == Init /\ [][NextMock]_vars

(***************************************************************************)
(* Properties.                                                             *)
(***************************************************************************)
Reconciled == last.act = "RefreshReconciled"

Called(name, id) == Op(name, id) \in last.ops

\* the report for vehicle id in the stored snapshot
Report(id) == CHOOSE v \in Range(vehicles) : v.vehicleId = id

\* the colour the classification asks for
ColorFor(id) == IF id \in Range(registeredVehicles) THEN ACCENT_COLOR ELSE NEUTRAL_COLOR

\* C1 (key-set equality): after a reconcile pass that ran to completion with
\* visibility on, the registry's keys are exactly the vehicleIds of the
\* snapshot it was given, the empty snapshot included.
KeySetEquality == Reconciled => DOMAIN markerMap = Ids(vehicles)

\* a pass that dropped A and added B, and one that emptied the registry
KeySetEqualityWitness ==
    /\ Reconciled
    /\ \/ Called("remove", "A") /\ Called("add", "B")
       \/ Called("remove", "A") /\ vehicles = <<>>

\* C2: in every reachable state the registry's keys are among the vehicleIds
\* of the snapshot stored last.
RegistrySubset == DOMAIN markerMap \subseteq Ids(vehicles)

\* a snapshot stored while hidden, and a populated registry
RegistrySubsetWitness ==
    \/ last.act = "RefreshStored" /\ vehicles # <<>>
    \/ Reconciled /\ Cardinality(DOMAIN markerMap) = 2

\* C3: once stop() has run, a snapshot fetch that resolves later changes
\* nothing: the registry and the marker layer stay empty and the layer stays
\* off the map.
StopIsFinal ==
    host \in {"stopping", "unmounted"} =>
        markerMap = EmptyMap /\ markerLayer = {} /\ ~layerOnMap

\* C4: at most one track polyline is attached to the map.
OnMapPolylines == {h \in DOMAIN polylines : polylines[h].onMap}

AtMostOneTrack == Cardinality(OnMapPolylines) <= 1

\* C5 (no-op stability): a visible reconcile given the snapshot of the visible
\* reconcile before it, the registered list unchanged, makes no setIcon, no
\* setPopupContent, no setLatLng call and adds or removes no marker.
NoOpStability ==
    (Reconciled /\ last.repeat) =>
        \A o \in last.ops :
            o.op \notin {"add", "remove", "setIcon", "setPopupContent", "setLatLng"}

NoOpStabilityWitness == Reconciled /\ last.repeat /\ Len(vehicles) = 2

\* C6 (speed only): when a report differs from its registry entry in speed
\* alone, the reconcile does not call setIcon on that marker, does call
\* setPopupContent and caches the new speed.
SpeedOnlyChange ==
    Reconciled =>
        \A id \in DOMAIN last.diff :
            ("speed" \in last.diff[id] /\ last.diff[id] \cap {"heading", "color"} = {}) =>
                /\ ~Called("setIcon", id)
                /\ Called("setPopupContent", id)
                /\ markerMap[id].speed = Report(id).speed
                /\ markerMap[id].marker.popup = makeVehiclePopup(Report(id))

SpeedOnlyChangeWitness ==
    Reconciled /\ \E id \in DOMAIN last.diff : last.diff[id] = {"speed"}

\* C7 (heading only): when a report differs from its registry entry in
\* heading and neither in speed nor in colour, the reconcile calls both
\* setIcon and setPopupContent on that marker and neither adds nor removes it.
HeadingOnlyChange ==
    Reconciled =>
        \A id \in DOMAIN last.diff :
            ("heading" \in last.diff[id] /\ last.diff[id] \cap {"speed", "color"} = {}) =>
                /\ Called("setIcon", id)
                /\ Called("setPopupContent", id)
                /\ ~Called("add", id)
                /\ ~Called("remove", id)
                /\ markerMap[id].marker.icon =
                       makeVehicleIcon(HeadingOrZero(Report(id)), ColorFor(id))

HeadingOnlyChangeWitness ==
    Reconciled /\ \E id \in DOMAIN last.diff : last.diff[id] = {"heading"}

\* C8 (colour classification): after a visible reconcile every vehicle of the
\* snapshot has the accent colour as icon and cached colour iff its vehicleId
\* is in registeredVehicles, the neutral colour otherwise, whatever the order
\* of the snapshot and of the registered list.
ColorClassification ==
    Reconciled =>
        \A i \in 1..Len(vehicles) :
            LET id == vehicles[i].vehicleId
            IN  /\ id \in DOMAIN markerMap
                /\ markerMap[id].color = ColorFor(id)
                /\ markerMap[id].marker.icon.color = ColorFor(id)

\* a two-vehicle snapshot whose second vehicle is the only known one
ColorClassificationWitness ==
    /\ Reconciled
    /\ Len(vehicles) = 2
    /\ markerMap[vehicles[1].vehicleId].color = NEUTRAL_COLOR
    /\ markerMap[vehicles[2].vehicleId].color = ACCENT_COLOR

\* C9: a displayed vehicle that has become known gets, in the next visible
\* reconcile that reports it, its icon swapped to the accent colour and its
\* cached colour updated, also when nothing else about it changed.
BecomesKnown ==
    Reconciled =>
        \A id \in DOMAIN last.diff :
            ("color" \in last.diff[id] /\ id \in Range(registeredVehicles)) =>
                /\ Called("setIcon", id)
                /\ markerMap[id].color = ACCENT_COLOR
                /\ markerMap[id].marker.icon.color = ACCENT_COLOR

BecomesKnownWitness ==
    /\ Reconciled
    /\ \E id \in DOMAIN last.diff :
          last.diff[id] = {"color"} /\ id \in Range(registeredVehicles)

\* C10: a snapshot fetch that throws or is answered with a non-success
\* status leaves vehicles, the registry and the marker layer as they were.
FailedFetchKeepsState ==
    [][last'.act = "RefreshFailed" =>
          UNCHANGED <<vehicles, markerMap, markerLayer, layerOnMap>>]_vars

FailedFetchWitness ==
    last.act = "RefreshFailed" /\ markerMap # EmptyMap /\ vehicles # <<>>

\* C11: a snapshot fetch that resolves after the map was torn down (map = null
\* in the host) touches neither the registry, nor the marker layer, nor the
\* layer's attachment to the map.
LateResponseShortCircuits ==
    [][host = "unmounted" => UNCHANGED <<markerMap, markerLayer, layerOnMap>>]_vars

\* C12: while tracking is hidden the timer keeps polling: a tick on the live
\* map issues a snapshot fetch, and a successful response replaces vehicles
\* with the response and leaves the registry, the marker layer's contents and
\* the layer's attachment to the map as they were.
HiddenPollStoresOnly ==
    [][/\ (last'.act = "Tick" /\ ~visible /\ host = "mounted") =>
              refreshInFlight' = refreshInFlight + 1
       /\ (last'.act = "RefreshStored") =>
              /\ ~visible
              /\ vehicles' = last'.data
              /\ UNCHANGED <<markerMap, markerLayer, layerOnMap>>]_vars

\* a response to a poll of the armed timer, stored while hidden
HiddenPollWitness ==
    /\ last.act = "RefreshStored"
    /\ ~visible
    /\ intervals # {}
    /\ host = "mounted"
    /\ Len(vehicles) = 2

TrackMinimumLength ==
    [][/\ (last'.act = "TrackSkipped") =>
              /\ Len(last'.data) < 2
              /\ UNCHANGED <<polylines, trackPolyline>>
       /\ (last'.act = "TrackDrawn" /\ host = "mounted") =>
              /\ Len(last'.data) >= 2
              /\ trackPolyline' \in DOMAIN polylines'
              /\ ~(trackPolyline' \in DOMAIN polylines /\ polylines[trackPolyline'].onMap)
              /\ Len(polylines'[trackPolyline'].points) = Len(last'.data)
              /\ \A i \in 1..Len(last'.data) :
                    polylines'[trackPolyline'].points[i] =
                        <<last'.data[i].lat, last'.data[i].lng>>
              /\ polylines'[trackPolyline'].onMap]_vars

\* a track of two different vertices drawn on the live map
TrackDrawnWitness ==
    /\ last.act = "TrackDrawn"
    /\ host = "mounted"
    /\ trackPolyline # NoHandle
    /\ polylines[trackPolyline].points = <<<<2, 1>>, <<1, 2>>>>
    /\ polylines[trackPolyline].onMap

\* C15 as stated: start() issues a registered-vehicle fetch and a snapshot
\* fetch and arms the timer, every tick of which calls refresh() whether the
\* tracking is visible or not; after start() the timer is armed and visible
\* is true.
StartRunsVisible ==
    [][/\ (last'.act = "Start") =>
              /\ regInFlight' = regInFlight + 1
              /\ refreshInFlight' = refreshInFlight + 1
              /\ timer' \in intervals' \ intervals
              /\ visible'
       /\ (last'.act = "Tick" /\ host = "mounted") =>
              refreshInFlight' = refreshInFlight + 1]_vars

\* C15 amended: start() issues the two fetches and arms the timer, every tick
\* of which calls refresh() whether the tracking is visible or not; start()
\* leaves visible as it was: true, unless toggleVisibility() hid the tracking
\* before start() was called.
StartArmsTimer ==
    [][/\ (last'.act = "Start") =>
              /\ regInFlight' = regInFlight + 1
              /\ refreshInFlight' = refreshInFlight + 1
              /\ timer' \in intervals' \ intervals
              /\ UNCHANGED <<visible, markerMap, markerLayer, layerOnMap>>
       /\ (last'.act = "Tick" /\ host = "mounted") =>
              /\ refreshInFlight' = refreshInFlight + 1
              /\ UNCHANGED <<visible, timer, intervals>>]_vars

\* start() called after the layer checkbox was unticked
StartHiddenWitness ==
    /\ last.act = "Start"
    /\ timer \in intervals
    /\ ~visible
    /\ refreshInFlight > 0
    /\ regInFlight > 0

\* C16: right after a toggleVisibility() that hid the tracking, visible is
\* false, the marker layer is off the map, the layer holds no marker and the
\* registry is empty.
HideClears ==
    (last.act = "ToggleVisibility" /\ ~visible) =>
        /\ ~layerOnMap
        /\ markerLayer = {}
        /\ markerMap = EmptyMap

\* a running tracking with two markers on the map was hidden
HideWitness ==
    /\ last.act = "ToggleVisibility"
    /\ ~visible
    /\ intervals # {}
    /\ Cardinality(DOMAIN last.before) = 2

\* C17: a toggleVisibility() while hidden makes visible true and calls
\* refresh() at once; when the fetch succeeds (the response arriving next)
\* the emptied registry gets exactly the vehicleIds of the response and the
\* marker layer is put on the map.
ShowRepopulates ==
    [][/\ (last'.act = "ToggleVisibility" /\ ~visible /\ host = "mounted") =>
              /\ visible'
              /\ refreshInFlight' = refreshInFlight + 1
       /\ (last'.act = "RefreshReconciled" /\ last.act = "ToggleVisibility") =>
              /\ markerMap = EmptyMap
              /\ ~layerOnMap
              /\ DOMAIN markerMap' = Ids(last'.data)
              /\ markerLayer' = {markerMap'[id].marker.h : id \in DOMAIN markerMap'}
              /\ layerOnMap']_vars

\* hidden, shown, and the response of two vehicles put on the map again
ShowWitness ==
    /\ Reconciled
    /\ last.phase = "rebuilt"
    /\ Called("attach", NoVehicle)
    /\ Called("add", "A")
    /\ Called("add", "B")
    /\ layerOnMap

\* C18: right after stop(), whether the tracking was visible or hidden, the
\* timer is cancelled, the track line is off the map, the marker layer is
\* off the map and holds no marker and the registry is empty; no tick fires
\* from then on.
StopLeavesStopped ==
    /\ (last.act = "Stop") =>
           /\ timer = NoHandle
           /\ (trackPolyline # NoHandle => ~polylines[trackPolyline].onMap)
           /\ ~layerOnMap
           /\ markerLayer = {}
           /\ markerMap = EmptyMap
    /\ (host \in {"stopping", "unmounted"}) =>
           /\ intervals = {}
           /\ last.act # "Tick"

\* stop() on a running, visible tracking with a marker and a track line
StopWitness ==
    /\ last.act = "Stop"
    /\ visible
    /\ last.before # EmptyMap
    /\ trackPolyline # NoHandle
    /\ refreshInFlight > 0

\* C19 (stop is idempotent): a second stop() right after the first leaves
\* the timer, the registry, the marker layer and its attachment, the track,
\* vehicles, visible and selectedVehicleId as the first call left them; and
\* in every state stop() twice gives what stop() once gives, with or without
\* a map.
StopIdempotent ==
    /\ (last.act = "Stop") => stop(Cur, MapPresent) = Cur
    /\ \A map \in BOOLEAN : stop(stop(Cur, map), map) = stop(Cur, map)

\* stop() on a hidden tracking that holds a snapshot, a selection and a track
StopTwiceWitness ==
    /\ last.act = "Stop"
    /\ ~visible
    /\ vehicles # <<>>
    /\ selectedVehicleId # NoVehicle
    /\ trackPolyline # NoHandle

\* C20: clearTrack() takes the track line off the map, sets the track handle
\* to none and selectedVehicleId to null; it issues no fetch and leaves the
\* registry, the marker layer, vehicles and visible as they were.
ClearTrackFrame ==
    [][(last'.act = "ClearTrack") =>
          /\ trackPolyline' = NoHandle
          /\ selectedVehicleId' = NoVehicle
          /\ \A h \in DOMAIN polylines' : h # trackPolyline /\ polylines'[h] = polylines[h]
          /\ UNCHANGED <<refreshInFlight, regInFlight, trackInFlight>>
          /\ UNCHANGED <<markerMap, markerLayer, layerOnMap, vehicles, visible>>]_vars

\* a drawn track cleared while a marker is on the map
ClearTrackWitness ==
    /\ last.act = "ClearTrack"
    /\ Called("removeTrack", "A")
    /\ markerMap # EmptyMap
    /\ layerOnMap
    /\ polylines = EmptyMap

\* C21 (scenario): from an empty registry, visibility on, the reconciles of
\* [A heading 0], [A heading 90], [B] do this: the first adds marker A and
\* nothing else; the second re-icons A (icon and popup, which shows the
\* heading) and adds, removes and moves nothing; the third removes A and adds
\* B and leaves B as the only key.
ScenarioPasses ==
    /\ (Reconciled /\ last.pass = 1) =>
           /\ {o \in last.ops : o.id # NoVehicle} = {Op("add", "A")}
           /\ DOMAIN markerMap = {"A"}
    /\ (Reconciled /\ last.pass = 2) =>
           /\ {o \in last.ops : o.id # NoVehicle} = {Op("setIcon", "A"), Op("setPopupContent", "A")}
           /\ DOMAIN markerMap = {"A"}
           /\ markerMap["A"].marker.icon.heading = 90
    /\ (Reconciled /\ last.pass = 3) =>
           /\ {o \in last.ops : o.id # NoVehicle} = {Op("remove", "A"), Op("add", "B")}
           /\ DOMAIN markerMap = {"B"}

\* the third reconcile of the scenario has run
ScenarioWitness == Reconciled /\ last.pass = 3 /\ vehicles = ScenarioThird

\* C22 (marker handle preservation): a visible reconcile keeps, for every
\* vehicleId that has a registry entry and is reported again, the marker the
\* entry holds; it creates a marker only for a vehicleId without an entry,
\* and the markers of two vehicleIds are never the same one.
HandlePreserved ==
    [][(last'.act = "RefreshReconciled") =>
          /\ \A id \in DOMAIN markerMap' :
                IF id \in DOMAIN markerMap
                THEN /\ markerMap'[id].marker.h = markerMap[id].marker.h
                     /\ Op("add", id) \notin last'.ops
                ELSE /\ Op("add", id) \in last'.ops
                     /\ markerMap'[id].marker.h \notin MarkerHandles(markerMap)
          /\ \A o \in last'.ops : o.op = "add" => o.id \notin DOMAIN markerMap
          /\ \A a, b \in DOMAIN markerMap' :
                a # b => markerMap'[a].marker.h # markerMap'[b].marker.h
          /\ Cardinality(markerLayer') = Cardinality(DOMAIN markerMap')]_vars

\* one marker moved and turned in place while another was created
HandlePreservedWitness ==
    /\ Reconciled
    /\ Called("setLatLng", "A")
    /\ Called("setIcon", "A")
    /\ Called("add", "B")

\* C23: after every visible reconcile each registry entry caches the heading
\* (0 for a null heading) and the classification colour of its vehicle's
\* report, and these are the arguments of the icon on its marker; setIcon is
\* called on a marker that existed iff the heading or the colour differed
\* from the cached ones.
IconCacheAgrees ==
    Reconciled =>
        \A id \in DOMAIN markerMap :
            /\ markerMap[id].heading =
                   (IF Report(id).heading = Null THEN 0 ELSE Report(id).heading)
            /\ markerMap[id].color = ColorFor(id)
            /\ markerMap[id].marker.icon.heading = markerMap[id].heading
            /\ markerMap[id].marker.icon.color = markerMap[id].color
            /\ Called("setIcon", id) <=>
                   /\ "new" \notin last.diff[id]
                   /\ last.diff[id] \cap {"heading", "color"} # {}

\* a null heading after 90 re-icons to 0; a null heading after 0 does not
IconCacheWitness ==
    /\ Reconciled
    /\ Len(vehicles) = 2
    /\ \A i \in 1..2 : vehicles[i].heading = Null
    /\ Called("setIcon", "B")
    /\ ~Called("setIcon", "A")
    /\ ~Called("add", "A")

\* C24: after every visible reconcile each marker of the registry stands at
\* the (lat, lng) of its vehicle's report; setLatLng is called on a marker
\* that existed iff its coordinates differed from the report's, and such a
\* marker is neither added nor removed.
MarkerFollowsReport ==
    Reconciled =>
        \A id \in DOMAIN markerMap :
            /\ markerMap[id].marker.latlng = <<Report(id).lat, Report(id).lng>>
            /\ Called("setLatLng", id) <=>
                   ("new" \notin last.diff[id] /\ "position" \in last.diff[id])
            /\ Called("add", id) <=> "new" \in last.diff[id]
            /\ ~Called("remove", id)

\* A moved and nothing else about it changed, next to a marker left alone
MarkerMovedWitness ==
    /\ Reconciled
    /\ Len(vehicles) = 2
    /\ last.diff["A"] = {"position"}
    /\ last.diff["B"] = {}
    /\ markerMap["A"].marker.latlng = <<2, 1>>

\* C25: overlapping snapshot fetches are not ordered: when the response to a
\* fetch is processed after the response to a fetch issued later, vehicles
\* and, while visible, the registry are set from that older response.
OlderResponseWins ==
    /\ (last.act = "RefreshStored" /\ last.late) => vehicles = last.data
    /\ (Reconciled /\ last.late) =>
           /\ vehicles = last.data
           /\ DOMAIN markerMap = Ids(last.data)

\* the empty response of the earlier fetch took out the marker that the
\* response of the later fetch had put in
OlderResponseWitness ==
    /\ Reconciled
    /\ last.late
    /\ host = "mounted"
    /\ Called("remove", "A")
    /\ vehicles = <<>>

\* C26 (self-healing): tracking started, the map present and tracking
\* visible; if from some point on no snapshot fetch fails and every response
\* is S, then from some point on the registry's keys are the vehicleIds of S,
\* whatever failed, stale or out-of-order responses came before.
Steady(S) ==
    /\ host = "mounted"
    /\ intervals # {}
    /\ visible
    /\ last.act # "RefreshFailed"
    /\ (last.act \in {"RefreshStored", "RefreshReconciled"}) => last.data = S

SelfHealing ==
    \A S \in LifeSnapshots : (<>[]Steady(S)) => <>[](DOMAIN markerMap = Ids(S))

\* the responses of both fetches in flight failed, the next one put A back
SelfHealingWitness ==
    /\ Reconciled
    /\ host = "mounted"
    /\ last.stale = 0
    /\ ~last.late
    /\ refreshInFlight = 0
    /\ Called("add", "A")
    /\ ~Called("attach", NoVehicle)

\* C27: every track polyline on the map was built from the history response
\* for the vehicle that is selected now, and a vehicle is selected.
TrackBelongsToSelection ==
    \A h \in OnMapPolylines :
        /\ selectedVehicleId # NoVehicle
        /\ polylines[h].vehicleId = selectedVehicleId

\* C28: at most one poll timer is armed at any time, and once stop() has run
\* no timer is armed.
AtMostOneTimer ==
    /\ Cardinality(intervals) <= 1
    /\ (host \in {"stopping", "unmounted"}) => intervals = {}

\* C29: in every reachable state the markers in the marker layer are exactly
\* the markers the registry entries hold.
LayerMatchesRegistry == markerLayer = MarkerHandles(markerMap)

\* a reconcile that took one marker out and left the other in
LayerMatchesWitness ==
    /\ Reconciled
    /\ host = "mounted"
    /\ Called("remove", "B")
    /\ ~Called("add", "A")
    /\ DOMAIN markerMap = {"A"}
    /\ Cardinality(markerLayer) = 1

\* C30: in every reachable state, tracking hidden implies the registry is
\* empty and the marker layer is off the map.
HiddenMeansEmpty == ~visible => (markerMap = EmptyMap /\ ~layerOnMap)

\* hidden while a fetch is in flight, and its response stored
HiddenMeansEmptyWitness ==
    /\ ~visible
    /\ last.act = "RefreshStored"
    /\ vehicles # <<>>
    /\ refreshInFlight > 0
    /\ intervals # {}

\* C31: after every visible reconcile the popup of each marker is the one
\* makeVehiclePopup generates from its vehicle's report in the latest
\* snapshot: same speed, same heading, an absent heading told from heading 0.
PopupFollowsReport ==
    Reconciled =>
        \A id \in DOMAIN markerMap :
            markerMap[id].marker.popup = makeVehiclePopup(Report(id))

\* C32: the poll loop and the visibility toggle never change the track
\* state: a step of refresh() (the tick, a direct call, any continuation of
\* its fetch) or of toggleVisibility() leaves selectedVehicleId, the handle
\* in trackPolyline and every polyline as they were, also when the pass
\* removes the marker of the selected vehicle.
PollLeavesTrack ==
    [][last'.act \in {"Tick", "Refresh", "RefreshStored", "RefreshReconciled",
                      "RefreshFailed", "ToggleVisibility"}
          => UNCHANGED <<selectedVehicleId, trackPolyline, polylines>>]_vars

\* a pass removed the marker of the selected vehicle, whose track is drawn
PollLeavesTrackWitness ==
    /\ Reconciled
    /\ Called("remove", "A")
    /\ selectedVehicleId = "A"
    /\ trackPolyline # NoHandle
    /\ trackPolyline \in OnMapPolylines
    /\ polylines[trackPolyline].vehicleId = "A"

\* C33: start() issues the registered-vehicle fetch and the first snapshot
\* fetch without ordering their responses.  A visible reconcile that runs
\* while the registered-vehicle response is still outstanding finds the list
\* empty and gives every marker the unknown colour; a visible reconcile that
\* finds a marker of the unknown colour for a vehicle of the list switches it
\* to the known colour with setIcon on the same marker, which is neither
\* removed nor added again.
FetchesUnordered ==
    [][(last'.act = "RefreshReconciled") =>
          /\ regInFlight > 0 =>
                /\ registeredVehicles = <<>>
                /\ \A id \in DOMAIN markerMap' :
                      /\ markerMap'[id].color = NEUTRAL_COLOR
                      /\ markerMap'[id].marker.icon.color = NEUTRAL_COLOR
          /\ \A id \in DOMAIN markerMap \cap Ids(vehicles') :
                (markerMap[id].color = NEUTRAL_COLOR /\ id \in Range(registeredVehicles)) =>
                    /\ id \in DOMAIN markerMap'
                    /\ markerMap'[id].color = ACCENT_COLOR
                    /\ markerMap'[id].marker.icon.color = ACCENT_COLOR
                    /\ markerMap'[id].marker.h = markerMap[id].marker.h
                    /\ markerMap'[id].marker.h \in markerLayer'
                    /\ Op("setIcon", id) \in last'.ops
                    /\ Op("add", id) \notin last'.ops
                    /\ Op("remove", id) \notin last'.ops]_vars

\* the snapshot came first and drew A and B unknown; the list [A] came next;
\* this pass recoloured A in place and left B alone
FetchesUnorderedWitness ==
    /\ Reconciled
    /\ regInFlight = 0
    /\ registeredVehicles = <<"A">>
    /\ Len(vehicles) = 2
    /\ last.diff["A"] = {"color"}
    /\ last.diff["B"] = {}
    /\ last.ops = {Op("setIcon", "A")}
    /\ markerMap["A"].marker.icon.color = ACCENT_COLOR
    /\ markerMap["B"].marker.icon.color = NEUTRAL_COLOR

\* C34: a call made while getMap() returns null does nothing: refresh()
\* (called directly or by the interval) issues no fetch and changes no
\* state; selectVehicle() leaves selectedVehicleId and the track as they
\* were and issues no fetch; toggleVisibility() leaves visible, the registry
\* and the marker layer as they were.
NullMapNoOps ==
    [][~MapPresent =>
          /\ last'.act \in {"Refresh", "Tick"} =>
                UNCHANGED <<host, vehicles, registeredVehicles, selectedVehicleId,
                            visible, markerMap, markerLayer, layerOnMap,
                            trackPolyline, polylines, timer, intervals,
                            refreshInFlight, regInFlight, trackInFlight>>
          /\ last'.act = "SelectVehicle" =>
                UNCHANGED <<selectedVehicleId, trackPolyline, polylines, trackInFlight>>
          /\ last'.act = "ToggleVisibility" =>
                UNCHANGED <<visible, markerMap, markerLayer, layerOnMap,
                            refreshInFlight>>]_vars

\* selectVehicle() called before the map exists, the poll timer already armed
\* by an early start() and the registered list already stored
NullMapWitness ==
    /\ host = "setup"
    /\ last.act = "SelectVehicle"
    /\ selectedVehicleId = NoVehicle
    /\ intervals # {}
    /\ registeredVehicles # <<>>
    /\ refreshInFlight = 0
    /\ visible

\* the pending point and the pending marker of the mock tool agree
PendingAgrees ==
    /\ (mockTool.pendingPoint # NoPoint) <=>
           (mockTool.pendingMarker # NoHandle
            /\ mockTool.pendingMarker \in DOMAIN mockTool.markers)
    /\ Cardinality(DOMAIN mockTool.markers) <= 1

\* C35: in the mock GPS tool, whatever the order of clicks in mock mode,
\* saveMockPoint, cancelMockPoint, toggleMockMode and clearMockData:
\* pendingPoint is non-null exactly when pendingMarker is a marker on the
\* map, the tool has at most one marker on the map, and saveMockPoint called
\* without a pending point sends no request and changes no state.
PendingPointHasMarker ==
    /\ PendingAgrees
    /\ [][/\ PendingAgrees'
          /\ (last'.act = "SaveMockPoint" /\ mockTool.pendingPoint = NoPoint) =>
                UNCHANGED <<host, vehicles, registeredVehicles, selectedVehicleId,
                            visible, markerMap, markerLayer, layerOnMap,
                            trackPolyline, polylines, timer, intervals,
                            refreshInFlight, regInFlight, trackInFlight,
                            mockTool>>]_vars

\* a click replaced the pending marker of an earlier click, a POST in flight
PendingPointWitness ==
    /\ last.act = "MockClickHandler"
    /\ mockTool.mockMode
    /\ mockTool.pendingPoint = [lat |-> 2, lng |-> 1]
    /\ mockTool.pendingMarker = 2
    /\ DOMAIN mockTool.markers = {2}
    /\ mockTool.posts # {}

=============================================================================
